---------------------------- MODULE Spec2Model ----------------------------
(***************************************************************************)
(* The query gateway of yee-panel (src/src/rpc/chain.rs): one gateway      *)
(* request, from the call of its handler to the completion of the future   *)
(* the handler returns.  A state is the position of the request in its     *)
(* chain of futures: which remote call it waits for, what the closures     *)
(* have captured so far, and the calls issued to the per-shard RPC client. *)
(* Every remote call is an action of its own: the shard node answers with  *)
(* a transport error, with nothing, or with a value, and the continuation  *)
(* of the future (the closure given to and_then / map) runs up to the next *)
(* remote call or to the result of the request.                            *)
(*                                                                         *)
(* Spec is one request against the answers of the shard nodes.  UnitSpec   *)
(* is one call of a helper function (the event log decoder, the decoders   *)
(* of the nonce and balance cells, the enrichment of an extrinsic) with    *)
(* its arguments.  PairSpec is two requests in flight, the reactor turning *)
(* from the future of one to the future of the other.                      *)
(***************************************************************************)
EXTENDS Integers, Sequences, FiniteSets, TLC

(* ------------------------------ bounds -------------------------------- *)

\* The largest configured shard count (config.shards.len()) explored.
MaxShards == 1
\* Block numbers range over 0..MaxBlock.
MaxBlock == 2
\* The longest extrinsic list of a block a shard node returns.
MaxTxs == 2
\* The longest event log a shard node returns.
MaxEvents == 1

(* ------------------------- Option<T>, bytes --------------------------- *)

\* Option<T>: None is the empty set, Some(x) the singleton.
None == {}
Some(x) == {x}
IsSome(o) == o # {}
Unwrap(o) == CHOOSE x \in o : TRUE

\* A byte vector of n bytes, all equal to b.
Bytes(n, b) == [i \in 1..n |-> b]

(* --------------------- the shard nodes' universe ---------------------- *)

BlockNumbers == 0..MaxBlock

\* The hash of the block at height n of a shard's chain, and its inverse.
HashAt(n) == 100 + n
NumberAt(h) == h - 100
Hashes == {HashAt(n) : n \in BlockNumbers}

\* substrate_primitives::blake2_256: injective on the byte strings of the
\* model, and never the identity.
blake2_256(bytes) == <<"blake2_256", bytes>>

\* Public keys (32 bytes) and the addresses a caller may give.
PublicKeys == {Bytes(32, 1), Bytes(32, 2)}
Addresses == {"addr1", "addr2", "not-an-address"}

\* <[u8; 32]>::from_address: the public key of an address, None when the
\* address does not decode to 32 bytes.
from_address(address) ==
    CASE address = "addr1" -> Some(Bytes(32, 1))
      [] address = "addr2" -> Some(Bytes(32, 2))
      [] OTHER -> None

\* AddressCodec::to_address on the bytes of a public key: Some(address), or
\* None when the bytes are no 32-byte key.
to_address(public) ==
    CASE public = Bytes(32, 1) -> Some("addr1")
      [] public = Bytes(32, 2) -> Some("addr2")
      [] OTHER -> None

\* yee_sharding_primitives::utils::shard_num_for_bytes: a shard in
\* [0, shard_count) from the last byte of the key, None when there is no shard.
shard_num_for_bytes(bytes, count) ==
    IF count = 0 \/ Len(bytes) = 0 THEN None
    ELSE Some(bytes[Len(bytes)] % count)

\* Storage keys (crate::rpc::types): a singleton item, or a map's cell.
get_value_storage_key(name) == [item |-> name]
get_map_storage_key(key, name) == [item |-> name, key |-> blake2_256(key)]

(* Extrinsics as the node stores them (raw bytes), and the call each decodes
   to.  Two relay transfers carry the same origin transaction, one carries
   an origin that does not decode as a Transaction, and one extrinsic is a
   balance transfer (module 4, method 0). *)
RawTxs == {"relayA1", "relayA2", "relayB", "transfer"}
OriginTxs == {"originA", "originB"}

\* A hex string: the number of leading "0x" and the digits, which are the
\* hex of a byte vector or no hex at all.
HexOf(bytes) == [lead |-> 1, valid |-> TRUE, bytes |-> bytes]

\* Call of a decoded extrinsic (yee_signer::tx::types::Call).
CallOf(raw) ==
    CASE raw = "relayA1" -> [kind |-> "Relay", variant |-> "Transfer", tx |-> "originA"]
      [] raw = "relayA2" -> [kind |-> "Relay", variant |-> "Transfer", tx |-> "originA"]
      [] raw = "relayB" -> [kind |-> "Relay", variant |-> "Transfer", tx |-> "originB"]
      [] OTHER -> [kind |-> "Balances", variant |-> "Transfer",
                   dest |-> <<255>> \o Bytes(32, 2)]

\* Decode::decode for a Transaction: the signer's address bytes (0xFF and
\* the public key) when signed, None in `signature` when unsigned, and no
\* transaction at all for bytes that do not deserialize.
DecodeTransaction(bytes) ==
    CASE bytes = "originA" ->
           Some([signature |-> Some(<<255>> \o Bytes(32, 1)), raw |-> bytes,
                 call |-> [kind |-> "Balances", variant |-> "Transfer",
                           dest |-> <<255>> \o Bytes(32, 2)]])
      [] bytes = "signed1" ->
           Some([signature |-> Some(<<255>> \o Bytes(32, 1)), raw |-> bytes,
                 call |-> [kind |-> "Balances", variant |-> "Transfer",
                           dest |-> <<255>> \o Bytes(32, 2)]])
      [] bytes = "signed2" ->
           Some([signature |-> Some(<<255>> \o Bytes(32, 2)), raw |-> bytes,
                 call |-> [kind |-> "Balances", variant |-> "Transfer",
                           dest |-> <<255>> \o Bytes(32, 1)]])
      [] bytes = "unsigned" ->
           Some([signature |-> None, raw |-> bytes,
                 call |-> [kind |-> "Balances", variant |-> "Transfer",
                           dest |-> <<255>> \o Bytes(32, 1)]])
      [] OTHER -> None

\* The bytes a caller may submit.
SubmitRaws == {"signed1", "signed2", "unsigned", "garbage"}


\* All sequences over S of length at most n.
SeqsUpTo(S, n) == UNION {[1..k -> S] : k \in 0..n}

(* What a node answers.  A raw block converts to a ResultBlock or not; it
   holds no extrinsic twice, but for one block that holds nothing but the
   same relay transfer.  The cell of the event log holds bytes that decode
   to a Vec<EventRecord> or not. *)
NodeBlocks ==
    {[converts |-> FALSE]}
    \cup {[converts |-> TRUE, extrinsics |-> s] :
            s \in {t \in SeqsUpTo(RawTxs, MaxTxs) :
                      \A i, j \in DOMAIN t : i # j => t[i] # t[j]}}
    \cup {[converts |-> TRUE, extrinsics |-> [i \in 1..MaxTxs |-> "relayA2"]]}

EventRecords ==
    {[phase |-> [kind |-> "ApplyExtrinsic", index |-> i], event |-> e] :
        i \in {0, 1},
        e \in {[module |-> "system", event |-> "ExtrinsicSuccess"],
               [module |-> "system", event |-> "ExtrinsicFailed"],
               [module |-> "balances", event |-> "Transfer"]}}
    \cup {[phase |-> [kind |-> "Finalization"],
           event |-> [module |-> "system", event |-> "ExtrinsicSuccess"]]}

EventLogs ==
    {[decodes |-> FALSE]}
    \cup {[decodes |-> TRUE, events |-> s] : s \in SeqsUpTo(EventRecords, MaxEvents)}

\* The cells of System AccountNonce and Balances FreeBalance: little-endian
\* bytes of the right length, and cells of another length.
NonceCells == {<<5, 0, 0, 0, 0, 0, 0, 0>>, <<0, 1, 0, 0, 0, 0, 0, 0>>, <<1, 2, 3>>, <<>>}
BalanceCells ==
    {<<5, 0, 0, 0, 0, 0, 0, 0, 0, 0, 0, 0, 0, 0, 0, 0>>, <<5, 0, 0, 0, 0, 0, 0, 0>>}

(* ------------------------- results and errors -------------------------- *)

\* Result<T, Error>, and a panic of the thread that polls the future.
Ok(v) == [state |-> "ok", value |-> v]
Err(e) == [state |-> "err", error |-> e]
Panic == [state |-> "panic"]
Pending == [state |-> "pending"]
IsOk(r) == r.state = "ok"
IsErr(r) == r.state = "err"

\* A failure of the transport to the shard node (errors.rs, Io / Rpc).
TransportError == "Transport"

(* --------------------------- binary codecs ---------------------------- *)

RECURSIVE from_le_bytes(_)
from_le_bytes(bytes) ==
    IF bytes = <<>> THEN 0 ELSE Head(bytes) + 256 * from_le_bytes(Tail(bytes))

\* u64::to_le_bytes / u128::to_le_bytes: the n bytes of v, the least first.
RECURSIVE to_le_bytes(_, _)
to_le_bytes(v, n) ==
    IF n = 0 THEN <<>> ELSE <<v % 256>> \o to_le_bytes(v \div 256, n - 1)

\* The decoder without the check of the length.
u64_from_slice_any_length(bytes) == Ok(from_le_bytes(bytes))

u64_from_slice(bytes) ==
    IF Len(bytes) # 8 THEN Err("ParseError") ELSE Ok(from_le_bytes(bytes))

u128_from_slice(bytes) ==
    IF Len(bytes) # 16 THEN Err("ParseError") ELSE Ok(from_le_bytes(bytes))

\* HashMap::entry(index): the map with index set to v.
Insert(map, index, v) ==
    [i \in DOMAIN map \cup {index} |-> IF i = index THEN v ELSE map[i]]

\* The turn that leaves the flag of an index it has seen as it is.
ApplyEvent_keep_flag(result, event) ==
    IF event.phase.kind = "ApplyExtrinsic"
    THEN LET index == event.phase.index IN
         IF event.event.module = "system"
         THEN LET success == (event.event.event = "ExtrinsicSuccess") IN
              IF index \notin DOMAIN result
              THEN Insert(result, index, [success |-> success, events |-> <<>>])
              ELSE result
         ELSE LET event_str == <<"Debug", event.event>> IN
              IF index \notin DOMAIN result
              THEN Insert(result, index, [success |-> FALSE, events |-> <<event_str>>])
              ELSE Insert(result, index,
                          [result[index] EXCEPT !.events = Append(@, event_str)])
    ELSE result

\* One turn of the loop over the event records.
ApplyEvent(result, event) ==
    IF event.phase.kind = "ApplyExtrinsic"
    THEN LET index == event.phase.index IN
         IF event.event.module = "system"
         THEN LET success == (event.event.event = "ExtrinsicSuccess") IN
              IF index \notin DOMAIN result
              THEN Insert(result, index, [success |-> success, events |-> <<>>])
              ELSE Insert(result, index, [result[index] EXCEPT !.success = success])
         ELSE LET event_str == <<"Debug", event.event>> IN
              IF index \notin DOMAIN result
              THEN Insert(result, index, [success |-> FALSE, events |-> <<event_str>>])
              ELSE Insert(result, index,
                          [result[index] EXCEPT !.events = Append(@, event_str)])
    ELSE result

RECURSIVE FoldEvents(_, _)
FoldEvents(events, result) ==
    IF events = <<>> THEN result
    ELSE FoldEvents(Tail(events), ApplyEvent(result, Head(events)))

EmptyMap == [i \in {} |-> 0]

\* The decoder that takes bytes that do not decode for an empty event log.
get_block_extrinsics_result_lenient(events) ==
    IF ~IsSome(events) THEN Ok(EmptyMap)
    ELSE IF ~Unwrap(events).decodes THEN Ok(EmptyMap)
    ELSE Ok(FoldEvents(Unwrap(events).events, EmptyMap))

\* events: Option of the bytes of the System Events cell.
get_block_extrinsics_result(events) ==
    IF ~IsSome(events) THEN Ok(EmptyMap)
    ELSE IF ~Unwrap(events).decodes THEN Err("ParseError")
    ELSE Ok(FoldEvents(Unwrap(events).events, EmptyMap))

(* ------------------------ result types (types.rs) ---------------------- *)

\* ResultTransaction of an extrinsic of a raw block.
ResultTransactionOf(raw) ==
    [hash |-> Some(blake2_256(raw)), raw |-> Some(raw), success |-> None,
     call |-> CallOf(raw), block_number |-> None]

\* ResultTransaction of a decoded Transaction (tx.into()).
ResultTransactionOfTx(tx) ==
    [hash |-> Some(blake2_256(tx.raw)), raw |-> None, success |-> None,
     call |-> tx.call, block_number |-> None]

\* block.block.try_into(): the ResultBlock of a raw block fetched at `hash`,
\* its header without a hash; fails for a block that does not convert.
ResultBlockOf(raw_block, hash) ==
    IF ~raw_block.converts THEN Err("ParseError")
    ELSE Ok([header |-> [number |-> NumberAt(hash), block_hash |-> None],
             extrinsics |-> [i \in DOMAIN raw_block.extrinsics |->
                                ResultTransactionOf(raw_block.extrinsics[i])]])

\* The serde_json::Value of a call: module and method numbers, and params.
CallValue(call) ==
    IF call.kind = "Relay"
    THEN [module |-> 9, method |-> 0, params |-> [tx |-> HexOf(call.tx)]]
    ELSE [module |-> 4, method |-> 0, params |-> [dest |-> HexOf(call.dest)]]

\* TryInto<Value> of a ResultTransaction and of a ResultBlock.
TxValue(tx) ==
    [hash |-> tx.hash, raw |-> tx.raw, success |-> tx.success,
     block_number |-> tx.block_number, call |-> CallValue(tx.call)]

BlockValue(block) ==
    [header |-> block.header,
     extrinsics |-> [i \in DOMAIN block.extrinsics |-> TxValue(block.extrinsics[i])]]

(* ---------------------------- Result Enricher --------------------------- *)

\* The address prefix of the process (crate::config::HRP).
HRP == "yee"

\* value[name] = v on a serde_json object.
SetField(object, name, v) ==
    [f \in DOMAIN object \cup {name} |-> IF f = name THEN v ELSE object[f]]

\* hex::decode of s.trim_start_matches("0x").
hex_decode(s) == IF s.valid THEN Ok(s.bytes) ELSE Err("FromHexError")

\* The enrichment that looks at the module of the call alone.
extrinsic_append_address_any_method(extrinsic, hrp, shard_count) ==
    LET call == extrinsic.call IN
    IF call.module = 4
    THEN IF "dest" \in DOMAIN call.params
         THEN LET decoded == hex_decode(call.params.dest) IN
              IF IsOk(decoded)
              THEN LET dest == decoded.value IN
                   IF Len(dest) = 0 THEN Panic
                   ELSE IF dest[1] = 255
                   THEN LET public == SubSeq(dest, 2, Len(dest))
                            shard_num == shard_num_for_bytes(public, shard_count)
                            address == to_address(public)
                        IN IF ~IsSome(shard_num) \/ ~IsSome(address) THEN Panic
                           ELSE Ok([extrinsic EXCEPT !.call.params =
                                      SetField(SetField(@, "dest_address", Unwrap(address)),
                                               "dest_shard_num", Unwrap(shard_num))])
                   ELSE Ok(extrinsic)
              ELSE Ok(extrinsic)
         ELSE Ok(extrinsic)
    ELSE Ok(extrinsic)

\* The extrinsic with dest_address and dest_shard_num added to the params of
\* its call, the extrinsic as it is, or a panic (dest[0] of no bytes, expect
\* of None).
extrinsic_append_address(extrinsic, hrp, shard_count) ==
    LET call == extrinsic.call IN
    IF call.module = 4 /\ call.method = 0
    THEN IF "dest" \in DOMAIN call.params
         THEN LET decoded == hex_decode(call.params.dest) IN
              IF IsOk(decoded)
              THEN LET dest == decoded.value IN
                   IF Len(dest) = 0 THEN Panic
                   ELSE IF dest[1] = 255
                   THEN LET public == SubSeq(dest, 2, Len(dest))
                            shard_num == shard_num_for_bytes(public, shard_count)
                            address == to_address(public)
                        IN IF ~IsSome(shard_num) \/ ~IsSome(address) THEN Panic
                           ELSE Ok([extrinsic EXCEPT !.call.params =
                                      SetField(SetField(@, "dest_address", Unwrap(address)),
                                               "dest_shard_num", Unwrap(shard_num))])
                   ELSE Ok(extrinsic)
              ELSE Ok(extrinsic)
         ELSE Ok(extrinsic)
    ELSE Ok(extrinsic)

\* The extrinsic with tx_decoded added to the params of its call, or a panic
\* (expect of a transaction that does not decode).
extrinsic_append_tx_decoded(extrinsic, hrp, shard_count) ==
    LET call == extrinsic.call IN
    IF call.module = 9 /\ call.method = 0
    THEN IF "tx" \in DOMAIN call.params
         THEN LET decoded == hex_decode(call.params.tx) IN
              IF IsOk(decoded)
              THEN LET tx == DecodeTransaction(decoded.value) IN
                   IF ~IsSome(tx) THEN Panic
                   \* `let mut tx: Value` is one value, which
                   \* extrinsic_append_address then works on.
                   ELSE LET appended ==
                                Unwrap({extrinsic_append_address(value, hrp, shard_count) :
                                          value \in {TxValue(ResultTransactionOfTx(Unwrap(tx)))}})
                        IN IF ~IsOk(appended) THEN Panic
                           ELSE Ok([extrinsic EXCEPT !.call.params =
                                      SetField(@, "tx_decoded", appended.value)])
              ELSE Ok(extrinsic)
         ELSE Ok(extrinsic)
    ELSE Ok(extrinsic)

\* TryInto<Value> of T, for the two T the gateway converts.
ToValue(o) == IF "extrinsics" \in DOMAIN o THEN BlockValue(o) ELSE TxValue(o)

\* get_option_value_future: the Value of Some(o); x is a Result<Option<T>>.
get_option_value_future(x) ==
    IF IsOk(x) /\ IsSome(x.value) THEN Ok(Some(ToValue(Unwrap(x.value)))) ELSE x

\* get_value_with_address_future: x is a Result<Option<Value>>.
get_value_with_address_future(x, hrp, shard_count) ==
    IF IsOk(x) /\ IsSome(x.value)
    THEN LET value == Unwrap(x.value)
             extrinsics ==
                 IF "extrinsics" \in DOMAIN value
                 THEN [i \in DOMAIN value.extrinsics |->
                         extrinsic_append_address(value.extrinsics[i], hrp, shard_count)]
                 ELSE <<>>
             value1 ==
                 IF "extrinsics" \in DOMAIN value
                 THEN [value EXCEPT !.extrinsics =
                         [i \in DOMAIN extrinsics |->
                            IF IsOk(extrinsics[i]) THEN extrinsics[i].value ELSE Panic]]
                 ELSE value
         IN IF \E i \in DOMAIN extrinsics : ~IsOk(extrinsics[i]) THEN Panic
            ELSE IF "call" \in DOMAIN value1
            THEN LET appended == extrinsic_append_address(value1, hrp, shard_count) IN
                 IF IsOk(appended) THEN Ok(Some(appended.value)) ELSE Panic
            ELSE Ok(Some(value1))
    ELSE x

\* get_value_with_tx_decoded_future: x is a Result<Option<Value>>.
get_value_with_tx_decoded_future(x, hrp, shard_count) ==
    IF IsOk(x) /\ IsSome(x.value)
    THEN LET value == Unwrap(x.value) IN
         IF "call" \in DOMAIN value
         THEN LET appended == extrinsic_append_tx_decoded(value, hrp, shard_count) IN
              IF IsOk(appended) THEN Ok(Some(appended.value)) ELSE Panic
         ELSE Ok(Some(value))
    ELSE x

(* --------------------------- shard validation -------------------------- *)

\* check_shard_num with the bound one too far, and with the bound exclusive.
check_shard_num_lenient(shard_num, shard_count) ==
    IF shard_num > shard_count + 1 THEN Err("InvalidShard") ELSE Ok(TRUE)

check_shard_num_exclusive(shard_num, shard_count) ==
    IF shard_num >= shard_count THEN Err("InvalidShard") ELSE Ok(TRUE)

check_shard_num(shard_num, shard_count) ==
    IF shard_num > shard_count THEN Err("InvalidShard") ELSE Ok(TRUE)

(* ------------------------------ the state ------------------------------ *)

VARIABLES
    shard_count,    \* config.shards.len() as u16 (and crate::config::SHARD_COUNT)
    req,            \* the operation called and its arguments
    pc,             \* the remote call the request's future waits for
    pending,        \* the remote calls issued and not yet answered
    calls,          \* every remote call issued, in the order of issue
    hash,           \* the Option<hash> the closures of the pipeline hold
    block,          \* the Option<ResultBlock> between get_block and the event log
    block_number,   \* the state of loop_fn: the block number being probed
    scan,           \* per completed probe: its number and where the node's block matched
    loop_result,    \* what loop_fn resolved to
    answers,        \* per answered call, in order: what kind of answer it got
    result,         \* what the future returned by the handler resolved to
    parked          \* the Option of another request in flight: what its future holds

vars == <<shard_count, req, pc, pending, calls, hash, block, block_number, scan,
          loop_result, answers, result, parked>>

\* u16 shard numbers a caller may pass: the valid ones, the count itself and one more.
ShardNums == 0..(MaxShards + 1)

\* The arguments a caller gives: the first and the last block number (every
\* number for the bounds of a range scan), the raw bytes and the hash of a
\* relay transfer and of a balance transfer.
RequestNumbers == {0, MaxBlock}
RequestRaws == {"relayA2", "transfer"}
TxHashes == {blake2_256(raw) : raw \in RequestRaws}
OriginHashes == {blake2_256(tx) : tx \in OriginTxs}

Requests ==
    {[op |-> o, shard_num |-> s] :
        o \in {"get_best_number", "get_finalized_number"}, s \in ShardNums}
    \cup {[op |-> o, shard_num |-> s, number |-> n] :
        o \in {"get_header_by_number", "get_block_by_number"},
        s \in ShardNums, n \in RequestNumbers}
    \cup {[op |-> o, shard_num |-> s, hash |-> HashAt(n)] :
        o \in {"get_header_by_hash", "get_block_by_hash"},
        s \in ShardNums, n \in RequestNumbers}
    \cup {[op |-> "get_extrinsic_by_hash", shard_num |-> s, block_number |-> n, hash |-> h] :
        s \in ShardNums, n \in RequestNumbers, h \in TxHashes}
    \cup {[op |-> "get_extrinsic_by_raw", shard_num |-> s, block_number |-> n, raw |-> r] :
        s \in ShardNums, n \in RequestNumbers, r \in RequestRaws}
    \cup {[op |-> "get_extrinsic_by_origin_hash", shard_num |-> s, from_block_number |-> f,
           to_block_number |-> t, origin_hash |-> h] :
        s \in ShardNums, f \in BlockNumbers, t \in BlockNumbers, h \in OriginHashes}
    \cup {[op |-> o, address |-> a, block_number |-> n] :
        o \in {"get_nonce", "get_balance"}, a \in Addresses,
        n \in {None} \cup {Some(k) : k \in RequestNumbers}}
    \cup {[op |-> "submit_extrinsic", raw |-> r] : r \in SubmitRaws}

Init ==
    /\ shard_count \in 0..MaxShards
    /\ req \in Requests
    /\ pc = "idle"
    /\ pending = {}
    /\ calls = <<>>
    /\ hash = None
    /\ block = None
    /\ block_number = 0
    /\ scan = <<>>
    /\ loop_result = Pending
    /\ answers = <<>>
    /\ result = Pending
    /\ parked = None

(* -------------------- the per-shard RPC client (client.rs) -------------- *)

GetHeader(shard, h) == [method |-> "get_header", shard |-> shard, hash |-> h]
GetBlockHash(shard, n) == [method |-> "get_block_hash", shard |-> shard, number |-> n]
GetFinalizedHash(shard) == [method |-> "get_finalized_hash", shard |-> shard]
GetBlock(shard, h) == [method |-> "get_block", shard |-> shard, hash |-> h]
GetStorage(shard, key, h) ==
    [method |-> "get_storage", shard |-> shard, key |-> key, hash |-> h]
SubmitExtrinsic(shard, raw) == [method |-> "submit_extrinsic", shard |-> shard, raw |-> raw]

\* What the future of a call may resolve to: a transport error, or the
\* node's answer.
Responses(c) ==
    {Err(TransportError)} \cup
    CASE c.method = "get_header" ->
           {Ok(None)} \cup
           {Ok(Some([number |-> n])) :
               n \in IF IsSome(c.hash) THEN {NumberAt(Unwrap(c.hash))} ELSE BlockNumbers}
      [] c.method = "get_block_hash" -> {Ok(None), Ok(Some(HashAt(c.number)))}
      [] c.method = "get_finalized_hash" -> {Ok(None)} \cup {Ok(Some(h)) : h \in Hashes}
      [] c.method = "get_block" -> {Ok(None)} \cup {Ok(Some(b)) : b \in NodeBlocks}
      [] c.method = "get_storage" ->
           {Ok(None)} \cup
           {Ok(Some(cell)) :
               cell \in CASE c.key.item = "System Events" -> EventLogs
                          [] c.key.item = "System AccountNonce" -> NonceCells
                          [] OTHER -> BalanceCells}
      [] OTHER -> {Ok(blake2_256(c.raw))}

\* The kind of the answer x to call c, as the transport and the node have it:
\* "err" for a transport failure, "none" for an absent value, "bad" for a raw
\* block that does not convert and for bytes of the event log that do not
\* decode, and "some" for any other value.
AnswerKind(c, x) ==
    IF IsErr(x) THEN "err"
    ELSE IF c.method = "submit_extrinsic" THEN "some"
    ELSE IF ~IsSome(x.value) THEN "none"
    ELSE IF c.method = "get_block" /\ ~Unwrap(x.value).converts THEN "bad"
    ELSE IF /\ c.method = "get_storage" /\ c.key.item = "System Events"
            /\ ~Unwrap(x.value).decodes
    THEN "bad"
    ELSE "some"

\* The answer x to call c arrives.
Observe(c, x) == answers' = Append(answers, AnswerKind(c, x))

\* The request's future resolves to r.
Reply(answered, r) ==
    /\ pc' = "done"
    /\ pending' = pending \ answered
    /\ calls' = calls
    /\ result' = r
    /\ parked' = parked

\* The call entered in one table of calls in flight that all requests share.
Call_shared_table(answered, call, next) ==
    /\ pc' = next
    /\ pending' = (pending \ answered) \cup {call}
    /\ calls' = Append(calls, call)
    /\ result' = result
    /\ parked' = {[other EXCEPT !.pending = @ \cup {call}] : other \in parked}

\* The request's future issues `call` and waits for it.
Call(answered, call, next) ==
    /\ pc' = next
    /\ pending' = (pending \ answered) \cup {call}
    /\ calls' = Append(calls, call)
    /\ result' = result
    /\ parked' = parked

(* --------------------------- header operations -------------------------- *)

\* x.map(|x| x.number) on an Option<Header>, under the future's map.
NumberOf(x) == IF IsOk(x) THEN Ok({header.number : header \in x.value}) ELSE x

\* The match that keeps a header fetched without a hash.
HeaderWithHash_any(x, h) ==
    IF IsOk(x)
    THEN IF IsSome(x.value)
         THEN Ok(Some([number |-> Unwrap(x.value).number, block_hash |-> h]))
         ELSE Ok(None)
    ELSE x

\* match (header, hash): the ResultHeader with the hash put in, if both are Some.
HeaderWithHash(x, h) ==
    IF IsOk(x)
    THEN IF IsSome(x.value) /\ IsSome(h)
         THEN Ok(Some([number |-> Unwrap(x.value).number, block_hash |-> Some(Unwrap(h))]))
         ELSE Ok(None)
    ELSE x

get_best_number ==
    /\ pc = "idle" /\ req.op = "get_best_number"
    /\ LET checked == check_shard_num(req.shard_num, shard_count) IN
       IF IsErr(checked) THEN Reply({}, checked)
       ELSE Call({}, GetHeader(req.shard_num, None), "header")
    /\ UNCHANGED <<shard_count, req, hash, block, block_number, scan, loop_result, answers>>

get_best_number_header ==
    /\ pc = "header" /\ req.op = "get_best_number"
    /\ \E c \in pending : \E x \in Responses(c) : Observe(c, x) /\ Reply({c}, NumberOf(x))
    /\ UNCHANGED <<shard_count, req, hash, block, block_number, scan, loop_result>>

get_finalized_number ==
    /\ pc = "idle" /\ req.op = "get_finalized_number"
    /\ LET checked == check_shard_num(req.shard_num, shard_count) IN
       IF IsErr(checked) THEN Reply({}, checked)
       ELSE Call({}, GetFinalizedHash(req.shard_num), "finalized_hash")
    /\ UNCHANGED <<shard_count, req, hash, block, block_number, scan, loop_result, answers>>

get_finalized_number_hash ==
    /\ pc = "finalized_hash" /\ req.op = "get_finalized_number"
    /\ \E c \in pending : \E x \in Responses(c) : Observe(c, x) /\
         IF IsErr(x) THEN Reply({c}, x)
         ELSE Call({c}, GetHeader(req.shard_num, x.value), "header")
    /\ UNCHANGED <<shard_count, req, hash, block, block_number, scan, loop_result>>

get_finalized_number_header ==
    /\ pc = "header" /\ req.op = "get_finalized_number"
    /\ \E c \in pending : \E x \in Responses(c) : Observe(c, x) /\ Reply({c}, NumberOf(x))
    /\ UNCHANGED <<shard_count, req, hash, block, block_number, scan, loop_result>>

get_header_by_number ==
    /\ pc = "idle" /\ req.op = "get_header_by_number"
    /\ LET checked == check_shard_num(req.shard_num, shard_count) IN
       IF IsErr(checked) THEN Reply({}, checked)
       ELSE Call({}, GetBlockHash(req.shard_num, req.number), "block_hash")
    /\ UNCHANGED <<shard_count, req, hash, block, block_number, scan, loop_result, answers>>

get_header_by_number_hash ==
    /\ pc = "block_hash" /\ req.op = "get_header_by_number"
    /\ \E c \in pending : \E x \in Responses(c) : Observe(c, x) /\
         IF IsErr(x) THEN Reply({c}, x) /\ hash' = hash
         ELSE Call({c}, GetHeader(req.shard_num, x.value), "header") /\ hash' = x.value
    /\ UNCHANGED <<shard_count, req, block, block_number, scan, loop_result>>

get_header_by_number_header ==
    /\ pc = "header" /\ req.op = "get_header_by_number"
    /\ \E c \in pending : \E x \in Responses(c) : Observe(c, x) /\ Reply({c}, HeaderWithHash(x, hash))
    /\ hash' = None
    /\ UNCHANGED <<shard_count, req, block, block_number, scan, loop_result>>

get_header_by_hash ==
    /\ pc = "idle" /\ req.op = "get_header_by_hash"
    /\ LET checked == check_shard_num(req.shard_num, shard_count) IN
       IF IsErr(checked) THEN Reply({}, checked) /\ hash' = hash
       ELSE Call({}, GetHeader(req.shard_num, Some(req.hash)), "header")
            /\ hash' = Some(req.hash)
    /\ UNCHANGED <<shard_count, req, block, block_number, scan, loop_result, answers>>

get_header_by_hash_header ==
    /\ pc = "header" /\ req.op = "get_header_by_hash"
    /\ \E c \in pending : \E x \in Responses(c) : Observe(c, x) /\ Reply({c}, HeaderWithHash(x, hash))
    /\ hash' = None
    /\ UNCHANGED <<shard_count, req, block, block_number, scan, loop_result>>

(* ---------------------------- block pipeline ---------------------------- *)

BlockOps ==
    {"get_block_by_number", "get_block_by_hash", "get_extrinsic_by_hash",
     "get_extrinsic_by_raw", "get_extrinsic_by_origin_hash"}

\* Raw bytes asked for by every operation.
with_raw_always(op) == TRUE

\* The with_raw argument each operation gives get_block_future.
with_raw(op) == op = "get_extrinsic_by_raw"

\* The greatest element instead of the least.
Last(positions) == CHOOSE i \in positions : \A j \in positions : i >= j

\* The least element of a non-empty set of positions: Iterator::next after
\* filter_map.
First(positions) == CHOOSE i \in positions : \A j \in positions : i <= j

\* The loop that looks the flag up by the position counted from 1.
with_extrinsics_result_from_one(b, map, raw_wanted) ==
    LET extrinsics == b.extrinsics IN
    [b EXCEPT !.extrinsics =
        [i \in DOMAIN extrinsics |->
            [extrinsics[i] EXCEPT
                !.raw = IF raw_wanted THEN extrinsics[i].raw ELSE None,
                !.success = IF i \in DOMAIN map
                            THEN Some(map[i].success) ELSE None]]]

\* The loop over block.extrinsics of get_block_future: the flag of each
\* extrinsic from the decoded event log, and raw dropped unless asked for.
with_extrinsics_result(b, map, raw_wanted) ==
    LET extrinsics == b.extrinsics IN
    [b EXCEPT !.extrinsics =
        [i \in DOMAIN extrinsics |->
            [extrinsics[i] EXCEPT
                !.raw = IF raw_wanted THEN extrinsics[i].raw ELSE None,
                !.success = IF (i - 1) \in DOMAIN map
                            THEN Some(map[i - 1].success) ELSE None]]]

\* The filter of get_extrinsic_by_hash; x is a Result<Option<ResultBlock>>.
filter_by_hash(x, h) ==
    IF IsOk(x) /\ IsSome(x.value)
    THEN LET extrinsics == Unwrap(x.value).extrinsics
             matching == {i \in DOMAIN extrinsics : extrinsics[i].hash = Some(h)}
         IN IF matching = {} THEN Ok(None) ELSE Ok(Some(extrinsics[First(matching)]))
    ELSE x

\* The filter that keeps the last transaction with the raw bytes.
filter_by_raw_last(x, raw) ==
    IF IsOk(x) /\ IsSome(x.value)
    THEN LET extrinsics == Unwrap(x.value).extrinsics
             matching == {i \in DOMAIN extrinsics : extrinsics[i].raw = Some(raw)}
         IN IF matching = {} THEN Ok(None)
            ELSE Ok(Some([extrinsics[Last(matching)] EXCEPT !.raw = None]))
    ELSE x

\* The filter of get_extrinsic_by_raw.
filter_by_raw(x, raw) ==
    IF IsOk(x) /\ IsSome(x.value)
    THEN LET extrinsics == Unwrap(x.value).extrinsics
             matching == {i \in DOMAIN extrinsics : extrinsics[i].raw = Some(raw)}
         IN IF matching = {} THEN Ok(None)
            ELSE Ok(Some([extrinsics[First(matching)] EXCEPT !.raw = None]))
    ELSE x

\* The filter of get_extrinsic_by_origin_hash_future, probing block n.
filter_by_origin_hash(x, n, origin_hash) ==
    IF IsOk(x) /\ IsSome(x.value)
    THEN LET extrinsics == Unwrap(x.value).extrinsics
             matching == {i \in DOMAIN extrinsics :
                             /\ extrinsics[i].call.kind = "Relay"
                             /\ extrinsics[i].call.variant = "Transfer"
                             /\ blake2_256(extrinsics[i].call.tx) = origin_hash}
         IN IF matching = {} THEN Ok(None)
            ELSE Ok(Some([extrinsics[First(matching)] EXCEPT !.block_number = Some(n)]))
    ELSE x

\* loop_fn's closure that stops one block early, that goes on unless the
\* block is exactly to_block, and that goes one block past to_block.
loop_step_early(x, n, to_block_number) ==
    IF IsErr(x) THEN [kind |-> "Err", value |-> x]
    ELSE IF IsSome(x.value) THEN [kind |-> "Break", value |-> x]
    ELSE IF n + 1 >= to_block_number THEN [kind |-> "Break", value |-> Ok(None)]
    ELSE [kind |-> "Continue", state |-> n + 1]

loop_step_equal(x, n, to_block_number) ==
    IF IsErr(x) THEN [kind |-> "Err", value |-> x]
    ELSE IF IsSome(x.value) THEN [kind |-> "Break", value |-> x]
    ELSE IF n = to_block_number THEN [kind |-> "Break", value |-> Ok(None)]
    ELSE [kind |-> "Continue", state |-> n + 1]

loop_step_past(x, n, to_block_number) ==
    IF IsErr(x) THEN [kind |-> "Err", value |-> x]
    ELSE IF IsSome(x.value) THEN [kind |-> "Break", value |-> x]
    ELSE IF n > to_block_number THEN [kind |-> "Break", value |-> Ok(None)]
    ELSE [kind |-> "Continue", state |-> n + 1]

\* The closure of loop_fn: x is the Result<Option<ResultTransaction>> of
\* probing block n.
loop_step(x, n, to_block_number) ==
    IF IsErr(x) THEN [kind |-> "Err", value |-> x]
    ELSE IF IsSome(x.value) THEN [kind |-> "Break", value |-> x]
    ELSE IF n >= to_block_number THEN [kind |-> "Break", value |-> Ok(None)]
    ELSE [kind |-> "Continue", state |-> n + 1]

\* The positions of the node's block at which a relay transfer carries an
\* origin transaction of hash origin_hash, each with the hash of the extrinsic
\* there; none when there is no block.
NodeMatches(x, origin_hash) ==
    IF IsOk(x) /\ IsSome(x.value)
    THEN LET extrinsics == Unwrap(x.value).extrinsics IN
         [i \in {k \in DOMAIN extrinsics :
                    /\ extrinsics[k].call.kind = "Relay"
                    /\ blake2_256(extrinsics[k].call.tx) = origin_hash}
            |-> extrinsics[i].hash]
    ELSE EmptyMap

\* What each operation does with the Result<Option<ResultBlock>> x of
\* get_block_future.  Each stage of the chain (filter, loop_fn's closure,
\* get_option_value_future) resolves to one value, bound here by \E over a
\* singleton, on which the next stage runs.
Complete(answered, x) ==
    CASE req.op \in {"get_block_by_number", "get_block_by_hash"} ->
           /\ \E value \in {get_option_value_future(x)} :
                Reply(answered, get_value_with_address_future(value, HRP, shard_count))
           /\ UNCHANGED <<block_number, scan, loop_result>>
      [] req.op = "get_extrinsic_by_hash" ->
           /\ \E found \in {filter_by_hash(x, req.hash)} :
              \E value \in {get_option_value_future(found)} :
                Reply(answered, get_value_with_address_future(value, HRP, shard_count))
           /\ UNCHANGED <<block_number, scan, loop_result>>
      [] req.op = "get_extrinsic_by_raw" ->
           /\ \E found \in {filter_by_raw(x, req.raw)} :
              \E value \in {get_option_value_future(found)} :
                Reply(answered, get_value_with_address_future(value, HRP, shard_count))
           /\ UNCHANGED <<block_number, scan, loop_result>>
      [] req.op = "get_extrinsic_by_origin_hash" ->
           \E found \in {filter_by_origin_hash(x, block_number, req.origin_hash)} :
           \E step \in {loop_step(found, block_number, req.to_block_number)} :
              /\ scan' = IF IsOk(x)
                         THEN Append(scan, [number |-> block_number,
                                            matches |-> NodeMatches(x, req.origin_hash)])
                         ELSE scan
              /\ IF step.kind = "Continue"
                 THEN /\ block_number' = step.state
                      /\ Call(answered, GetBlockHash(req.shard_num, step.state), "block_hash")
                      /\ loop_result' = loop_result
                 ELSE /\ block_number' = block_number
                      /\ loop_result' = step.value
                      /\ \E value \in {get_option_value_future(step.value)} :
                           Reply(answered, get_value_with_tx_decoded_future(
                                               value, HRP, shard_count))

get_block_by_number ==
    /\ pc = "idle" /\ req.op = "get_block_by_number"
    /\ LET checked == check_shard_num(req.shard_num, shard_count) IN
       IF IsErr(checked) THEN Reply({}, checked)
       ELSE Call({}, GetBlockHash(req.shard_num, req.number), "block_hash")
    /\ UNCHANGED <<shard_count, req, hash, block, block_number, scan, loop_result, answers>>

get_block_by_hash ==
    /\ pc = "idle" /\ req.op = "get_block_by_hash"
    /\ LET checked == check_shard_num(req.shard_num, shard_count) IN
       IF IsErr(checked) THEN Reply({}, checked) /\ hash' = hash
       ELSE Call({}, GetBlock(req.shard_num, Some(req.hash)), "block")
            /\ hash' = Some(req.hash)
    /\ UNCHANGED <<shard_count, req, block, block_number, scan, loop_result, answers>>

get_extrinsic_by_hash ==
    /\ pc = "idle" /\ req.op = "get_extrinsic_by_hash"
    /\ LET checked == check_shard_num(req.shard_num, shard_count) IN
       IF IsErr(checked) THEN Reply({}, checked)
       ELSE Call({}, GetBlockHash(req.shard_num, req.block_number), "block_hash")
    /\ UNCHANGED <<shard_count, req, hash, block, block_number, scan, loop_result, answers>>

get_extrinsic_by_raw ==
    /\ pc = "idle" /\ req.op = "get_extrinsic_by_raw"
    /\ LET checked == check_shard_num(req.shard_num, shard_count) IN
       IF IsErr(checked) THEN Reply({}, checked)
       ELSE Call({}, GetBlockHash(req.shard_num, req.block_number), "block_hash")
    /\ UNCHANGED <<shard_count, req, hash, block, block_number, scan, loop_result, answers>>

get_extrinsic_by_origin_hash ==
    /\ pc = "idle" /\ req.op = "get_extrinsic_by_origin_hash"
    /\ LET checked == check_shard_num(req.shard_num, shard_count) IN
       IF IsErr(checked) THEN Reply({}, checked) /\ block_number' = block_number
       ELSE /\ block_number' = req.from_block_number
            /\ Call({}, GetBlockHash(req.shard_num, req.from_block_number), "block_hash")
    /\ UNCHANGED <<shard_count, req, hash, block, scan, loop_result, answers>>

\* The match on the resolved hash that makes an error of an absent hash.
hash_step_absent_is_error(x) ==
    IF IsOk(x) /\ IsSome(x.value) THEN [kind |-> "Fetch", hash |-> x.value]
    ELSE IF IsOk(x) THEN [kind |-> "Done", value |-> Err("NotFound")]
    ELSE [kind |-> "Done", value |-> x]

\* The match on the resolved hash x, a Result<Option<hash>>: the block is
\* fetched at Some(hash), and None or an error is the result of the step.
hash_step(x) ==
    IF IsOk(x) /\ IsSome(x.value) THEN [kind |-> "Fetch", hash |-> x.value]
    ELSE [kind |-> "Done", value |-> x]

\* The storage read of the event log at the best block, whatever b is.
events_call_at_best(shard, b) ==
    GetStorage(shard, get_value_storage_key("System Events"), None)

\* The storage read of the event log of block b: System Events at the hash
\* in b's header.
events_call(shard, b) ==
    GetStorage(shard, get_value_storage_key("System Events"),
               Some(Unwrap(b.header.block_hash)))

\* get_block_future, the closure on the hash future.
get_block_future_hash ==
    /\ pc = "block_hash" /\ req.op \in BlockOps
    /\ \E c \in pending : \E x \in Responses(c) : Observe(c, x) /\
         LET step == hash_step(x) IN
         IF step.kind = "Fetch"
         THEN /\ Call({c}, GetBlock(req.shard_num, step.hash), "block")
              /\ hash' = step.hash
              /\ UNCHANGED <<block_number, scan, loop_result>>
         ELSE Complete({c}, step.value) /\ hash' = None
    /\ UNCHANGED <<shard_count, req, block>>

\* get_block_future, the closure on the block: the conversion, the hash put
\* into the header, and the fetch of the event log at that hash.
get_block_future_block ==
    /\ pc = "block" /\ req.op \in BlockOps
    /\ \E c \in pending : \E x \in Responses(c) : Observe(c, x) /\
         IF IsOk(x) /\ IsSome(x.value)
         THEN LET converted == ResultBlockOf(Unwrap(x.value), Unwrap(hash)) IN
              IF IsErr(converted)
              THEN Complete({c}, converted) /\ hash' = None /\ block' = None
              ELSE LET b == [converted.value EXCEPT !.header.block_hash = hash] IN
                   /\ block' = Some(b)
                   /\ hash' = None
                   /\ Call({c}, events_call(req.shard_num, b), "events")
                   /\ UNCHANGED <<block_number, scan, loop_result>>
         ELSE Complete({c}, x) /\ hash' = None /\ block' = None
    /\ UNCHANGED <<shard_count, req>>

\* get_block_future, the closure on the event log: the decoded flags, or the
\* error of the read or of the decoding, and then the loop over the block's
\* extrinsics.
get_block_future_events ==
    /\ pc = "events" /\ req.op \in BlockOps
    /\ \E c \in pending : \E x \in Responses(c) : Observe(c, x) /\
         \E decoded \in {IF IsErr(x) THEN x ELSE get_block_extrinsics_result(x.value)} :
           IF IsErr(decoded) THEN Complete({c}, decoded)
           ELSE \E b \in {with_extrinsics_result(Unwrap(block), decoded.value,
                                                  with_raw(req.op))} :
                  Complete({c}, Ok(Some(b)))
    /\ block' = None
    /\ UNCHANGED <<shard_count, req, hash>>

(* ---------------------- account state and submission -------------------- *)

\* The shard of the account of the request, from its address.
AccountShard == shard_num_for_bytes(Unwrap(from_address(req.address)), shard_count)

\* The storage key of the account's cell of the map `name`.
AccountKey(name) == get_map_storage_key(Unwrap(from_address(req.address)), name)

\* TryInto<Value> of a Balance: the u128 wrapped, as serde_json cannot hold it.
BalanceValue(balance) == [balance |-> balance]

\* The closure of get_nonce on the storage cell.
nonce_of_cell(x) ==
    IF IsErr(x) THEN x
    ELSE IF IsSome(x.value) THEN u64_from_slice(Unwrap(x.value))
    ELSE Ok(0)

\* The closure of get_balance on the storage cell, and get_value_future.
balance_of_cell(x) ==
    IF IsErr(x) THEN x
    ELSE IF IsSome(x.value)
    THEN LET balance == u128_from_slice(Unwrap(x.value)) IN
         IF IsErr(balance) THEN balance ELSE Ok(BalanceValue(balance.value))
    ELSE Ok(BalanceValue(0))

\* The start that reads shard 0 when the account has no shard.
AccountStart_default_shard(name) ==
    IF ~IsSome(from_address(req.address)) THEN Reply({}, Err("InvalidAddress"))
    ELSE IF ~IsSome(AccountShard)
    THEN Call({}, GetStorage(0, AccountKey(name), None), "storage")
    ELSE IF IsSome(req.block_number)
    THEN Call({}, GetBlockHash(Unwrap(AccountShard), Unwrap(req.block_number)), "block_hash")
    ELSE Call({}, GetStorage(Unwrap(AccountShard), AccountKey(name), None), "storage")

\* get_nonce and get_balance up to their first remote call.
AccountStart(name) ==
    IF ~IsSome(from_address(req.address)) THEN Reply({}, Err("InvalidAddress"))
    ELSE IF ~IsSome(AccountShard) THEN Reply({}, Err("InvalidShard"))
    ELSE IF IsSome(req.block_number)
    THEN Call({}, GetBlockHash(Unwrap(AccountShard), Unwrap(req.block_number)), "block_hash")
    ELSE Call({}, GetStorage(Unwrap(AccountShard), AccountKey(name), None), "storage")

\* The closure on the block hash: the storage read at that Option<hash>.
AccountHash(name) ==
    \E c \in pending : \E x \in Responses(c) : Observe(c, x) /\
      IF IsErr(x) THEN Reply({c}, x)
      ELSE Call({c}, GetStorage(Unwrap(AccountShard), AccountKey(name), x.value), "storage")

get_nonce ==
    /\ pc = "idle" /\ req.op = "get_nonce"
    /\ AccountStart("System AccountNonce")
    /\ UNCHANGED <<shard_count, req, hash, block, block_number, scan, loop_result, answers>>

get_nonce_hash ==
    /\ pc = "block_hash" /\ req.op = "get_nonce"
    /\ AccountHash("System AccountNonce")
    /\ UNCHANGED <<shard_count, req, hash, block, block_number, scan, loop_result>>

get_nonce_storage ==
    /\ pc = "storage" /\ req.op = "get_nonce"
    /\ \E c \in pending : \E x \in Responses(c) : Observe(c, x) /\ Reply({c}, nonce_of_cell(x))
    /\ UNCHANGED <<shard_count, req, hash, block, block_number, scan, loop_result>>

get_balance ==
    /\ pc = "idle" /\ req.op = "get_balance"
    /\ AccountStart("Balances FreeBalance")
    /\ UNCHANGED <<shard_count, req, hash, block, block_number, scan, loop_result, answers>>

get_balance_hash ==
    /\ pc = "block_hash" /\ req.op = "get_balance"
    /\ AccountHash("Balances FreeBalance")
    /\ UNCHANGED <<shard_count, req, hash, block, block_number, scan, loop_result>>

get_balance_storage ==
    /\ pc = "storage" /\ req.op = "get_balance"
    /\ \E c \in pending : \E x \in Responses(c) : Observe(c, x) /\ Reply({c}, balance_of_cell(x))
    /\ UNCHANGED <<shard_count, req, hash, block, block_number, scan, loop_result>>

\* The submission that sends a transaction without a signature to shard 0.
submit_extrinsic_unsigned_sent ==
    /\ pc = "idle" /\ req.op = "submit_extrinsic"
    /\ LET tx == DecodeTransaction(req.raw) IN
       IF ~IsSome(tx) THEN Reply({}, Err("InvalidExtrinsic"))
       ELSE IF ~IsSome(Unwrap(tx).signature)
       THEN Call({}, SubmitExtrinsic(0, req.raw), "submit")
       ELSE LET address == Unwrap(Unwrap(tx).signature)
                public == SubSeq(address, 2, Len(address))
                shard_num == shard_num_for_bytes(public, shard_count)
            IN IF ~IsSome(shard_num) THEN Reply({}, Err("InvalidShard"))
               ELSE Call({}, SubmitExtrinsic(Unwrap(shard_num), req.raw), "submit")
    /\ UNCHANGED <<shard_count, req, hash, block, block_number, scan, loop_result, answers>>

submit_extrinsic ==
    /\ pc = "idle" /\ req.op = "submit_extrinsic"
    /\ LET tx == DecodeTransaction(req.raw) IN
       IF ~IsSome(tx) THEN Reply({}, Err("InvalidExtrinsic"))
       ELSE IF ~IsSome(Unwrap(tx).signature) THEN Reply({}, Err("InvalidExtrinsic"))
       ELSE LET address == Unwrap(Unwrap(tx).signature)
                public == SubSeq(address, 2, Len(address))
                shard_num == shard_num_for_bytes(public, shard_count)
            IN IF ~IsSome(shard_num) THEN Reply({}, Err("InvalidShard"))
               ELSE Call({}, SubmitExtrinsic(Unwrap(shard_num), req.raw), "submit")
    /\ UNCHANGED <<shard_count, req, hash, block, block_number, scan, loop_result, answers>>

submit_extrinsic_result ==
    /\ pc = "submit" /\ req.op = "submit_extrinsic"
    /\ \E c \in pending : \E x \in Responses(c) : Observe(c, x) /\ Reply({c}, x)
    /\ UNCHANGED <<shard_count, req, hash, block, block_number, scan, loop_result>>

(* --------------------------- the specifications ------------------------- *)

Next ==
    \/ get_best_number
    \/ get_best_number_header
    \/ get_finalized_number
    \/ get_finalized_number_hash
    \/ get_finalized_number_header
    \/ get_header_by_number
    \/ get_header_by_number_hash
    \/ get_header_by_number_header
    \/ get_header_by_hash
    \/ get_header_by_hash_header
    \/ get_block_by_number
    \/ get_block_by_hash
    \/ get_extrinsic_by_hash
    \/ get_extrinsic_by_raw
    \/ get_extrinsic_by_origin_hash
    \/ get_block_future_hash
    \/ get_block_future_block
    \/ get_block_future_events
    \/ get_nonce
    \/ get_nonce_hash
    \/ get_nonce_storage
    \/ get_balance
    \/ get_balance_hash
    \/ get_balance_storage
    \/ submit_extrinsic
    \/ submit_extrinsic_result

Spec == Init /\ [][Next]_vars

(* ------------------- the helper functions, one call each ---------------- *)

\* The largest extrinsic index of an event, and the longest event log, a
\* helper is called with.
MaxIndex == 2
MaxLogLen == 2

\* Event records of every phase, and the Option of the bytes of an event log.
UnitEventRecords ==
    {[phase |-> [kind |-> "ApplyExtrinsic", index |-> i], event |-> e] :
        i \in 0..MaxIndex,
        e \in {[module |-> "system", event |-> "ExtrinsicSuccess"],
               [module |-> "system", event |-> "ExtrinsicFailed"],
               [module |-> "balances", event |-> "Transfer"]}}
    \cup {[phase |-> [kind |-> "Finalization"], event |-> e] :
            e \in {[module |-> "system", event |-> "ExtrinsicSuccess"],
                   [module |-> "balances", event |-> "Transfer"]}}

UnitEventLogs ==
    {None, Some([decodes |-> FALSE])}
    \cup {Some([decodes |-> TRUE, events |-> s]) :
            s \in SeqsUpTo(UnitEventRecords, MaxLogLen)}

\* The longest storage cell, and the largest of the small numbers encoded.
MaxCellLen == 17
MaxValue == 300

\* Storage cells: absent, or bytes of any length up to MaxCellLen, of which
\* the first four vary (the fourth below 128) and the others are 0.
UnitCells ==
    {None} \cup
    {Some([i \in 1..n |-> IF i <= 4 THEN p[i] ELSE 0]) :
        n \in 0..MaxCellLen,
        p \in {q \in [1..4 -> {0, 1, 5, 127, 255}] : q[4] < 128}}

\* Numbers to encode: the small ones, and some of two, three and four bytes.
UnitValues == (0..MaxValue) \cup {65535, 65536, 16777215, 16777216, 2147483647}

\* The strings of a dest parameter: with "0x" in front or without, hex digits
\* or not, and the bytes of the digits: none, the sentinel 0xFF alone, before
\* a public key and before 31 bytes, and a key after another byte.
UnitDests ==
    {[lead |-> l, valid |-> v, bytes |-> b] :
        l \in {0, 1}, v \in BOOLEAN,
        b \in {<<>>, <<255>>, <<255>> \o Bytes(32, 1), <<255>> \o Bytes(31, 1),
               <<1>> \o Bytes(32, 1)}}

\* The Value of an extrinsic whose call has a dest parameter: the balance
\* transfer (module 4, method 0) and two other calls.
UnitExtrinsics ==
    {[TxValue(ResultTransactionOf("transfer")) EXCEPT
         !.call = [module |-> m[1], method |-> m[2], params |-> [dest |-> d]]] :
        m \in {<<4, 0>>, <<4, 1>>, <<9, 0>>}, d \in UnitDests}

\* What get_value_with_address_future is given: an error, no value, the
\* Value of one extrinsic, and the Value of a block of up to MaxTxs
\* extrinsics (those with "0x" in front of the dest).
UnitStructured ==
    {Err(TransportError), Ok(None)}
    \cup {Ok(Some(e)) : e \in UnitExtrinsics}
    \cup {Ok(Some([header |-> [number |-> 0, block_hash |-> Some(HashAt(0))],
                   extrinsics |-> s])) :
            s \in SeqsUpTo({e \in UnitExtrinsics : e.call.params.dest.lead = 1}, MaxTxs)}

\* The width of a block number, and the greatest number it holds.
BlockNumberBits == 3
MaxBlockNumber == 2 ^ BlockNumberBits - 1

\* What a probe of the range scan resolves to: an error, no match, a match.
UnitProbes ==
    {Err(TransportError), Ok(None), Ok(Some(ResultTransactionOf("relayA1")))}

\* A call of one helper function with its arguments.
UnitRequests ==
    {[op |-> "get_block_extrinsics_result", events |-> e] : e \in UnitEventLogs}
    \cup {[op |-> o, cell |-> c] : o \in {"nonce_of_cell", "balance_of_cell"}, c \in UnitCells}
    \cup {[op |-> o, value |-> v] : o \in {"u64_round_trip", "u128_round_trip"},
                                    v \in UnitValues}
    \cup {[op |-> "extrinsic_append_address", extrinsic |-> e] : e \in UnitExtrinsics}
    \cup {[op |-> "get_value_with_address_future", future |-> x] : x \in UnitStructured}
    \cup {[op |-> "loop_step", found |-> x, block_number |-> n, to_block_number |-> t] :
            x \in UnitProbes, n \in 0..MaxBlockNumber, t \in 0..MaxBlockNumber}

UnitInit ==
    /\ shard_count \in 0..MaxShards
    /\ req \in UnitRequests
    /\ pc = "idle"
    /\ pending = {}
    /\ calls = <<>>
    /\ hash = None
    /\ block = None
    /\ block_number = 0
    /\ scan = <<>>
    /\ loop_result = Pending
    /\ answers = <<>>
    /\ result = Pending
    /\ parked = None

\* The helper returns r.
Return(r) ==
    /\ pc' = "done"
    /\ result' = r
    /\ UNCHANGED <<shard_count, req, pending, calls, hash, block, block_number, scan,
                   loop_result, answers, parked>>

call_get_block_extrinsics_result ==
    /\ pc = "idle" /\ req.op = "get_block_extrinsics_result"
    /\ Return(get_block_extrinsics_result(req.events))

\* The storage read of get_nonce / get_balance answers with the cell.
call_nonce_of_cell ==
    /\ pc = "idle" /\ req.op = "nonce_of_cell"
    /\ Return(nonce_of_cell(Ok(req.cell)))

call_balance_of_cell ==
    /\ pc = "idle" /\ req.op = "balance_of_cell"
    /\ Return(balance_of_cell(Ok(req.cell)))

\* A number is encoded, the least byte first, and decoded.
call_u64_round_trip ==
    /\ pc = "idle" /\ req.op = "u64_round_trip"
    /\ Return(u64_from_slice(to_le_bytes(req.value, 8)))

call_u128_round_trip ==
    /\ pc = "idle" /\ req.op = "u128_round_trip"
    /\ Return(u128_from_slice(to_le_bytes(req.value, 16)))

\* The enrichment of one extrinsic, with the process-wide HRP and shard count.
call_extrinsic_append_address ==
    /\ pc = "idle" /\ req.op = "extrinsic_append_address"
    /\ Return(extrinsic_append_address(req.extrinsic, HRP, shard_count))

\* The enrichment of what a request's future resolved to.
call_get_value_with_address_future ==
    /\ pc = "idle" /\ req.op = "get_value_with_address_future"
    /\ Return(get_value_with_address_future(req.future, HRP, shard_count))

\* One turn of loop_fn's closure, on any block number of the type.
call_loop_step ==
    /\ pc = "idle" /\ req.op = "loop_step"
    /\ Return(Ok(loop_step(req.found, req.block_number, req.to_block_number)))

UnitNext ==
    \/ call_get_block_extrinsics_result
    \/ call_nonce_of_cell
    \/ call_balance_of_cell
    \/ call_u64_round_trip
    \/ call_u128_round_trip
    \/ call_extrinsic_append_address
    \/ call_get_value_with_address_future
    \/ call_loop_step

UnitSpec == UnitInit /\ [][UnitNext]_vars

(* ------------------------ two requests in flight ------------------------ *)

\* One request of every operation, to shard 0 and about block 0.
PairRequests ==
    {[op |-> o, shard_num |-> 0] : o \in {"get_best_number", "get_finalized_number"}}
    \cup {[op |-> o, shard_num |-> 0, number |-> 0] :
            o \in {"get_header_by_number", "get_block_by_number"}}
    \cup {[op |-> o, shard_num |-> 0, hash |-> HashAt(0)] :
            o \in {"get_header_by_hash", "get_block_by_hash"}}
    \cup {[op |-> "get_extrinsic_by_hash", shard_num |-> 0, block_number |-> 0,
           hash |-> blake2_256("transfer")],
          [op |-> "get_extrinsic_by_raw", shard_num |-> 0, block_number |-> 0,
           raw |-> "transfer"],
          [op |-> "get_extrinsic_by_origin_hash", shard_num |-> 0, from_block_number |-> 0,
           to_block_number |-> 0, origin_hash |-> blake2_256("originA")],
          [op |-> "get_nonce", address |-> "addr1", block_number |-> Some(0)],
          [op |-> "get_balance", address |-> "addr1", block_number |-> Some(0)],
          [op |-> "submit_extrinsic", raw |-> "signed1"]}

\* The requests that are in flight next to one of PairRequests.
ParkedRequests ==
    {[op |-> "get_best_number", shard_num |-> 0],
     [op |-> "get_nonce", address |-> "addr2", block_number |-> None]}

\* What the future of the request being polled holds.
Suspended ==
    [req |-> req, pc |-> pc, pending |-> pending, calls |-> calls, hash |-> hash,
     block |-> block, block_number |-> block_number, scan |-> scan,
     loop_result |-> loop_result, answers |-> answers, result |-> result]

\* The future a handler returns for the request q, before it is polled.
Fresh(q) ==
    [req |-> q, pc |-> "idle", pending |-> {}, calls |-> <<>>, hash |-> None,
     block |-> None, block_number |-> 0, scan |-> <<>>, loop_result |-> Pending,
     answers |-> <<>>, result |-> Pending]

PairInit ==
    /\ shard_count \in 0..MaxShards
    /\ req \in PairRequests
    /\ pc = "idle"
    /\ pending = {}
    /\ calls = <<>>
    /\ hash = None
    /\ block = None
    /\ block_number = 0
    /\ scan = <<>>
    /\ loop_result = Pending
    /\ answers = <<>>
    /\ result = Pending
    /\ parked \in {Some(Fresh(q)) : q \in ParkedRequests}

\* The reactor turns to the other future: the one it polled is suspended
\* with what it holds.
poll_other ==
    /\ IsSome(parked)
    /\ parked' = Some(Suspended)
    /\ LET other == Unwrap(parked) IN
       /\ req' = other.req
       /\ pc' = other.pc
       /\ pending' = other.pending
       /\ calls' = other.calls
       /\ hash' = other.hash
       /\ block' = other.block
       /\ block_number' = other.block_number
       /\ scan' = other.scan
       /\ loop_result' = other.loop_result
       /\ answers' = other.answers
       /\ result' = other.result
    /\ UNCHANGED shard_count

PairNext ==
    \/ Next
    \/ poll_other

PairSpec == PairInit /\ [][PairNext]_vars

(* ------------------------------ properties ----------------------------- *)

\* The request names its shard (the nine operations that take shard_num).
HasShardNum == "shard_num" \in DOMAIN req

\* The request is for an account or a transaction whose key is well formed,
\* so that only the shard derivation can reject it.
KeyGiven ==
    \/ req.op \in {"get_nonce", "get_balance"} /\ req.address \in {"addr1", "addr2"}
    \/ req.op = "submit_extrinsic" /\ req.raw \in {"signed1", "signed2"}

\* The request was rejected with InvalidShard before any remote call.
RejectedInvalidShard ==
    /\ calls = <<>>
    /\ pending = {}
    /\ pc \in {"idle", "done"}
    /\ pc = "done" => result = Err("InvalidShard")

\* C1: a request whose shard number fails the validation against the
\* configured shard count (a shard_num above the count, or no shard derivable
\* for the key because the count is 0) returns InvalidShard, and in no state
\* of the request has a remote call been issued or is one outstanding.
C1_InvalidShardIssuesNoCall ==
    /\ (HasShardNum /\ req.shard_num > shard_count) => RejectedInvalidShard
    /\ (KeyGiven /\ shard_count = 0) => RejectedInvalidShard

C1_Witness ==
    /\ HasShardNum /\ req.shard_num > shard_count
    /\ pc = "done" /\ result = Err("InvalidShard") /\ calls = <<>>

\* C2: check_shard_num fails, with InvalidShard, exactly when the requested
\* shard is strictly greater than the shard count: a handler that was given
\* shard_num has returned InvalidShard without a call if shard_num > count,
\* and has issued its first call otherwise, shard_num = count included.
C2_CheckShardNumBoundary ==
    HasShardNum =>
        /\ check_shard_num(req.shard_num, shard_count) =
              IF req.shard_num > shard_count THEN Err("InvalidShard") ELSE Ok(TRUE)
        /\ pc # "idle" =>
              IF req.shard_num > shard_count
              THEN pc = "done" /\ result = Err("InvalidShard") /\ calls = <<>>
              ELSE calls # <<>> /\ result # Err("InvalidShard")

C2_Witness ==
    /\ HasShardNum /\ req.shard_num = shard_count
    /\ pc # "idle" /\ Len(calls) >= 1

\* C3 (as claimed, for a configuration of at least one shard): every call
\* issued to the per-shard RPC client targets a shard in [0, shard_count).
C3_CallsTargetConfiguredShards ==
    shard_count >= 1 => \A i \in DOMAIN calls : calls[i].shard \in 0..(shard_count - 1)

(* The range scan of get_extrinsic_by_origin_hash.  A probe is one turn of
   loop_fn: it starts with the get_block_hash call for its block number. *)
IsScan == req.op = "get_extrinsic_by_origin_hash"
IsProbe(c) == c.method = "get_block_hash"
Probed == LET probes == SelectSeq(calls, IsProbe) IN [i \in DOMAIN probes |-> probes[i].number]
Matched(i) == DOMAIN scan[i].matches # {}
NoFailure == \A i \in DOMAIN answers : answers[i] \notin {"err", "bad"}
Max(a, b) == IF a >= b THEN a ELSE b

\* C4: the range scan probes from_block, from_block + 1, ... in this order;
\* a probe whose block holds a matching relay transfer is the last probe; and
\* the transaction the scan returns is the matching relay transfer at the
\* lowest position of that block, with that block's number attached.
C4_ScanInOrderFirstMatch ==
    IsScan =>
        /\ \A i \in DOMAIN Probed : Probed[i] = req.from_block_number + i - 1
        /\ Len(scan) <= Len(Probed)
        /\ \A i \in DOMAIN scan :
              /\ scan[i].number = Probed[i]
              /\ Matched(i) => i = Len(scan) /\ i = Len(Probed) /\ pc = "done"
        /\ (IsOk(loop_result) /\ IsSome(loop_result.value)) =>
              /\ Len(scan) >= 1
              /\ LET tx == Unwrap(loop_result.value)
                     last == scan[Len(scan)]
                 IN /\ Matched(Len(scan))
                    /\ tx.block_number = Some(last.number)
                    /\ tx.call.kind = "Relay"
                    /\ blake2_256(tx.call.tx) = req.origin_hash
                    /\ \E i \in DOMAIN last.matches :
                          /\ tx.hash = last.matches[i]
                          /\ \A j \in DOMAIN last.matches : i <= j
        /\ (IsOk(result) /\ IsSome(result.value)) =>
              /\ IsOk(loop_result) /\ IsSome(loop_result.value)
              /\ Unwrap(result.value).hash = Unwrap(loop_result.value).hash
              /\ Unwrap(result.value).block_number = Unwrap(loop_result.value).block_number

C4_Witness ==
    /\ IsScan /\ pc = "done" /\ Len(scan) >= 2
    /\ IsOk(result) /\ IsSome(result.value)
    /\ Cardinality(DOMAIN scan[Len(scan)].matches) >= 2

\* C5: a range scan over from_block <= to_block in which no call fails ends
\* "not found" after exactly to_block - from_block + 1 probes when no probed
\* block holds a match, and ends with the match after exactly
\* m - from_block + 1 probes when block m is the first to hold one.
C5_ScanProbeCount ==
    (/\ IsScan /\ req.shard_num <= shard_count
     /\ req.from_block_number <= req.to_block_number
     /\ pc = "done" /\ NoFailure) =>
        IF \A i \in DOMAIN scan : ~Matched(i)
        THEN /\ loop_result = Ok(None)
             /\ result = Ok(None)
             /\ Len(Probed) = req.to_block_number - req.from_block_number + 1
             /\ Len(scan) = Len(Probed)
        ELSE \A i \in DOMAIN scan : Matched(i) =>
                /\ IsOk(loop_result) /\ IsSome(loop_result.value)
                /\ Unwrap(loop_result.value).block_number = Some(scan[i].number)
                /\ Len(Probed) = scan[i].number - req.from_block_number + 1

C5_Witness ==
    /\ IsScan /\ pc = "done" /\ NoFailure
    /\ req.to_block_number = req.from_block_number + 2
    /\ Len(Probed) = 3 /\ ~Matched(1) /\ ~Matched(2) /\ Matched(3)
    /\ IsOk(loop_result) /\ IsSome(loop_result.value)

\* C6: a range scan with from_block > to_block that passed the shard
\* validation probes from_block and no other block, and is over once that
\* probe is; it ends with an error only for an invalid shard or a failed call,
\* never because of its bounds.
C6_ReversedRangeOneProbe ==
    (IsScan /\ req.from_block_number > req.to_block_number) =>
        /\ (req.shard_num <= shard_count /\ pc # "idle") =>
               Probed = <<req.from_block_number>>
        /\ (Len(scan) = 1 \/ ~NoFailure) => pc = "done"
        /\ (pc = "done" /\ NoFailure /\ req.shard_num <= shard_count) =>
               /\ Len(scan) = 1
               /\ IsOk(loop_result)
               /\ result.state # "err"
        /\ (pc = "done" /\ IsErr(result)) =>
               \/ req.shard_num > shard_count /\ result = Err("InvalidShard")
               \/ ~NoFailure /\ result.error # "InvalidShard"

C6_Witness ==
    /\ IsScan /\ req.from_block_number > req.to_block_number
    /\ pc = "done" /\ Probed = <<req.from_block_number>>
    /\ loop_result = Ok(None) /\ result = Ok(None)

\* The range scan never makes more than max(1, to_block - from_block + 1)
\* probes, nor probes a block number above max(from_block, to_block).
ProbesBounded ==
    /\ Len(Probed) <= Max(1, req.to_block_number - req.from_block_number + 1)
    /\ \A i \in DOMAIN Probed :
          Probed[i] <= Max(req.from_block_number, req.to_block_number)

\* C7: when every remote call is answered, the range scan terminates: a scan
\* that is not over can always take a step (the answer to its outstanding
\* call), every step issues one more call or ends the scan, and a probe is at
\* most three calls, so that within 3 * max(1, to_block - from_block + 1)
\* answered calls the scan is over.  It never makes more than
\* max(1, to_block - from_block + 1) probes, nor probes a block number above
\* max(from_block, to_block).
C7_ScanTerminates ==
    /\ [](IsScan =>
            /\ ProbesBounded
            /\ Len(calls) <= 3 * Max(1, req.to_block_number - req.from_block_number + 1)
            /\ pc # "done" => ENABLED Next)
    /\ [][IsScan => \/ Len(calls') = Len(calls) + 1
                    \/ pc # "done" /\ pc' = "done"]_vars

C7_Witness ==
    /\ IsScan /\ pc = "done"
    /\ req.from_block_number < req.to_block_number
    /\ Len(Probed) = req.to_block_number - req.from_block_number + 1


\* C8: once a remote call of a request has failed (a transport error), or has
\* returned a raw block that does not convert or an event log that does not
\* decode, that call is the last call the request issues (the range scan
\* probes no further block), the request is over, and its result is that
\* error: the transport error, or ParseError.
C8_FailureShortCircuits ==
    \A i \in DOMAIN answers :
        answers[i] \in {"err", "bad"} =>
            /\ i = Len(answers)
            /\ Len(calls) = i
            /\ pending = {}
            /\ pc = "done"
            /\ result = Err(IF answers[i] = "err" THEN TransportError ELSE "ParseError")

C8_Witness ==
    /\ IsScan /\ pc = "done"
    /\ Len(answers) = 6 /\ answers[6] = "bad"
    /\ Len(Probed) = 2 /\ result = Err("ParseError")

\* C9: a request has at most one remote call outstanding, the call it issued
\* last, and every earlier call has been answered.  In the block pipeline
\* get_block follows a get_block_hash that returned a hash, and is made at
\* that hash; the read of the event log follows a get_block that returned a
\* block, and is made at the hash get_block was made at, which is the hash in
\* the header of the block, while the pipeline holds it and in the result.
C9_CallsSequential ==
    /\ Cardinality(pending) <= 1
    /\ \A c \in pending : calls # <<>> /\ c = calls[Len(calls)]
    /\ Len(answers) = Len(calls) - Cardinality(pending)
    /\ \A i \in DOMAIN calls :
          /\ (calls[i].method = "get_block" /\ req.op # "get_block_by_hash") =>
                /\ i > 1
                /\ calls[i - 1].method = "get_block_hash"
                /\ answers[i - 1] = "some"
                /\ calls[i].hash = Some(HashAt(calls[i - 1].number))
          /\ (calls[i].method = "get_storage" /\ calls[i].key.item = "System Events") =>
                /\ i > 1
                /\ calls[i - 1].method = "get_block"
                /\ answers[i - 1] = "some"
                /\ IsSome(calls[i].hash)
                /\ calls[i].hash = calls[i - 1].hash
    /\ pc = "events" =>
          /\ IsSome(block)
          /\ pending = {calls[Len(calls)]}
          /\ Unwrap(block).header.block_hash = calls[Len(calls)].hash
    /\ (/\ req.op \in {"get_block_by_number", "get_block_by_hash"}
        /\ pc = "done" /\ IsOk(result) /\ IsSome(result.value)) =>
          /\ Len(calls) >= 2
          /\ calls[Len(calls)].method = "get_storage"
          /\ Unwrap(result.value).header.block_hash = calls[Len(calls)].hash

C9_Witness ==
    /\ req.op = "get_block_by_number" /\ pc = "done"
    /\ Len(calls) = 3 /\ answers = <<"some", "some", "some">>
    /\ IsOk(result) /\ IsSome(result.value)
    /\ Unwrap(result.value).header.block_hash = Some(HashAt(req.number))

\* C10: when the shard has no block at the number a block is asked for by
\* (the hash resolution returns None), the request is over with the result
\* Ok(None), and the get_block_hash call is the only call it has issued:
\* neither get_block nor the read of the event log follows.
C10_AbsentBlockIsNone ==
    (/\ req.op \in {"get_block_by_number", "get_extrinsic_by_hash", "get_extrinsic_by_raw"}
     /\ Len(answers) >= 1 /\ answers[1] = "none") =>
        /\ pc = "done"
        /\ result = Ok(None)
        /\ pending = {}
        /\ Len(calls) = 1
        /\ calls[1].method = "get_block_hash"

C10_Witness ==
    /\ req.op = "get_block_by_number" /\ pc = "done"
    /\ calls = <<GetBlockHash(req.shard_num, req.number)>>
    /\ answers = <<"none">> /\ result = Ok(None)

\* The request has returned a value (a block or a transaction).
ReturnedValue == pc = "done" /\ IsOk(result) /\ IsSome(result.value)

\* The transactions of a returned value: those of the block, or the one
\* transaction.
TransactionsOf(value) ==
    IF "extrinsics" \in DOMAIN value
    THEN {value.extrinsics[i] : i \in DOMAIN value.extrinsics}
    ELSE {value}

\* C11: the block the pipeline makes of the block it holds and of any event
\* log carries raw bytes on no transaction unless the operation asked for
\* them (get_extrinsic_by_raw alone does), and then on every transaction; and
\* on every transaction of every value the five block operations return, the
\* raw field is absent.
C11_NoRawUnlessRequested ==
    /\ (pc = "events" /\ req.op \in BlockOps) =>
          \A log \in EventLogs :
             log.decodes =>
                LET made == with_extrinsics_result(
                                Unwrap(block),
                                get_block_extrinsics_result(Some(log)).value,
                                with_raw(req.op))
                IN \A i \in DOMAIN made.extrinsics :
                      IF req.op = "get_extrinsic_by_raw"
                      THEN made.extrinsics[i].raw = Unwrap(block).extrinsics[i].raw
                           /\ IsSome(made.extrinsics[i].raw)
                      ELSE made.extrinsics[i].raw = None
    /\ (req.op \in BlockOps /\ ReturnedValue) =>
          \A tx \in TransactionsOf(Unwrap(result.value)) : tx.raw = None

C11_Witness ==
    /\ req.op = "get_block_by_number" /\ ReturnedValue
    /\ Len(Unwrap(result.value).extrinsics) >= 2
    /\ \A tx \in TransactionsOf(Unwrap(result.value)) : tx.raw = None


(* The event log decoder, against the log it is given. *)
IsApplied(event) == event.phase.kind = "ApplyExtrinsic"
IsMarker(event) == event.event.module = "system"

\* The positions of log with an event applied during extrinsic N, and those
\* of them that hold a success / failure marker.
AppliedAt(log, N) == {i \in DOMAIN log : IsApplied(log[i]) /\ log[i].phase.index = N}
MarkersAt(log, N) == {i \in AppliedAt(log, N) : IsMarker(log[i])}

\* The flag of N: the last marker of N in log order, FALSE without one.
FlagOf(log, N) ==
    IF MarkersAt(log, N) = {} THEN FALSE
    ELSE LET last == CHOOSE i \in MarkersAt(log, N) : \A j \in MarkersAt(log, N) : j <= i
         IN log[last].event.event = "ExtrinsicSuccess"

\* The descriptions of N: its events that are no marker, in log order.
DescriptionsOf(log, N) ==
    LET Described(event) == IsApplied(event) /\ event.phase.index = N /\ ~IsMarker(event)
        kept == SelectSeq(log, Described)
    IN [i \in DOMAIN kept |-> <<"Debug", kept[i].event>>]

IsLookup == req.op \in {"get_extrinsic_by_hash", "get_extrinsic_by_raw"}

\* The positions of the block's transactions with the hash, or the raw
\* bytes, the request asks for.
MatchingIn(extrinsics) ==
    {i \in DOMAIN extrinsics :
        IF req.op = "get_extrinsic_by_hash"
        THEN extrinsics[i].hash = Some(req.hash)
        ELSE extrinsics[i].raw = Some(req.raw)}

\* The hash of the transaction the request asks for.
WantedHash ==
    IF req.op = "get_extrinsic_by_hash" THEN req.hash ELSE blake2_256(req.raw)

\* The filter of the request on a block.
Lookup(x) ==
    IF req.op = "get_extrinsic_by_hash"
    THEN filter_by_hash(x, req.hash) ELSE filter_by_raw(x, req.raw)

\* The shard has no block at the number of the request: no hash, or no block
\* at the hash.
BlockAbsent ==
    /\ Len(answers) >= 1
    /\ \/ answers[1] = "none"
       \/ Len(answers) >= 2 /\ answers[1] = "some" /\ answers[2] = "none"

\* C13: get_extrinsic_by_hash and get_extrinsic_by_raw return the first
\* transaction, in block order, whose hash (whose raw bytes) is the one asked
\* for, with the flag of its own position; with no block at the number, or
\* no such transaction in the block, the result is Ok(None) and no error.
C13_LookupFirstMatch ==
    /\ []((IsLookup /\ pc = "events") =>
            \A log \in EventLogs :
               log.decodes =>
                  LET flags == get_block_extrinsics_result(Some(log)).value
                      made == with_extrinsics_result(Unwrap(block), flags, with_raw(req.op))
                      found == Lookup(Ok(Some(made)))
                      extrinsics == Unwrap(block).extrinsics
                      matching == MatchingIn(extrinsics)
                  IN IF matching = {} THEN found = Ok(None)
                     ELSE \E i \in matching :
                            /\ \A j \in matching : i <= j
                            /\ found = Ok(Some([extrinsics[i] EXCEPT
                                          !.raw = None,
                                          !.success = IF (i - 1) \in DOMAIN flags
                                                      THEN Some(flags[i - 1].success)
                                                      ELSE None])))
    /\ []((IsLookup /\ pc = "done" /\ BlockAbsent) => result = Ok(None))
    /\ [][(/\ IsLookup /\ pc = "events" /\ pc' = "done"
           /\ answers'[Len(answers')] \in {"some", "none"}
           /\ result'.state # "panic") =>
             IF MatchingIn(Unwrap(block).extrinsics) = {}
             THEN result' = Ok(None)
             ELSE /\ IsOk(result') /\ IsSome(result'.value)
                  /\ Unwrap(result'.value).hash = Some(WantedHash)
                  /\ Unwrap(result'.value).raw = None]_vars

C13_Witness ==
    /\ req.op = "get_extrinsic_by_raw" /\ ReturnedValue
    /\ answers = <<"some", "some", "some">>
    /\ Unwrap(result.value).hash = Some(blake2_256(req.raw))
    /\ Unwrap(result.value).success = Some(TRUE)


(* Submission. *)
\* The bytes of the request do not deserialize, or hold no signature.
Unsubmittable ==
    \/ ~IsSome(DecodeTransaction(req.raw))
    \/ ~IsSome(Unwrap(DecodeTransaction(req.raw)).signature)

\* The shard of the signer of the request's transaction.
SignerShard ==
    LET address == Unwrap(Unwrap(DecodeTransaction(req.raw)).signature)
    IN shard_num_for_bytes(SubSeq(address, 2, Len(address)), shard_count)

\* C14: submit_extrinsic with bytes that do not deserialize, or that hold a
\* transaction without a signature, ends with InvalidExtrinsic and has
\* contacted no shard; a submit call is issued only for bytes that decode to
\* a signed transaction whose signer has a shard, to that shard and with the
\* bytes given.
C14_SubmitChecksFirst ==
    req.op = "submit_extrinsic" =>
        /\ Unsubmittable =>
              /\ calls = <<>> /\ pending = {}
              /\ pc \in {"idle", "done"}
              /\ pc = "done" => result = Err("InvalidExtrinsic")
        /\ \A i \in DOMAIN calls :
              /\ ~Unsubmittable
              /\ IsSome(SignerShard)
              /\ calls[i] = SubmitExtrinsic(Unwrap(SignerShard), req.raw)

C14_Witness ==
    /\ req.op = "submit_extrinsic" /\ req.raw = "unsigned"
    /\ pc = "done" /\ result = Err("InvalidExtrinsic") /\ calls = <<>>


(* Account state. *)
IsAccountOp == req.op \in {"get_nonce", "get_balance"}

\* The request is over with the error e and has issued no call.
RejectedWith(e) ==
    /\ calls = <<>> /\ pending = {} /\ answers = <<>>
    /\ pc \in {"idle", "done"}
    /\ pc = "done" => result = Err(e)

\* C15: get_nonce and get_balance find what is wrong with their arguments
\* before any remote call: an address that does not decode gives
\* InvalidAddress and an address without a shard (the shard count is 0)
\* gives InvalidShard, and neither get_block_hash nor get_storage is called.
C15_AccountChecksFirst ==
    IsAccountOp =>
        /\ ~IsSome(from_address(req.address)) => RejectedWith("InvalidAddress")
        /\ (IsSome(from_address(req.address)) /\ shard_count = 0) =>
              RejectedWith("InvalidShard")

C15_Witness ==
    /\ req.op = "get_balance" /\ req.address = "addr1" /\ IsSome(req.block_number)
    /\ shard_count = 0
    /\ pc = "done" /\ result = Err("InvalidShard") /\ calls = <<>>


(* Nonce and balance cells. *)
\* The number whose little-endian bytes are `bytes`, for bytes that are 0
\* from the fifth on.
ValueLE(bytes) ==
    LET At(i) == IF i <= Len(bytes) THEN bytes[i] ELSE 0
    IN At(1) + 256 * At(2) + 65536 * At(3) + 16777216 * At(4)

\* C16: the nonce of an absent cell is 0, that of a cell of exactly 8 bytes
\* is the little-endian value of the bytes ([5,0,0,0,0,0,0,0] gives 5), and
\* a cell of another length is a ParseError; the balance is the same with 16
\* bytes and 0 for an absent cell.  A u64 / u128 encoded little-endian and
\* decoded is the number encoded.
C16_NonceBalanceDecoding ==
    pc = "done" =>
        /\ req.op = "nonce_of_cell" =>
              /\ req.cell = None => result = Ok(0)
              /\ IsSome(req.cell) =>
                    result = IF Len(Unwrap(req.cell)) = 8
                             THEN Ok(ValueLE(Unwrap(req.cell))) ELSE Err("ParseError")
              /\ req.cell = Some(<<5, 0, 0, 0, 0, 0, 0, 0>>) => result = Ok(5)
        /\ req.op = "balance_of_cell" =>
              /\ req.cell = None => result = Ok(BalanceValue(0))
              /\ IsSome(req.cell) =>
                    result = IF Len(Unwrap(req.cell)) = 16
                             THEN Ok(BalanceValue(ValueLE(Unwrap(req.cell))))
                             ELSE Err("ParseError")
        /\ req.op \in {"u64_round_trip", "u128_round_trip"} => result = Ok(req.value)

C16_Witness ==
    /\ req.op = "nonce_of_cell" /\ pc = "done"
    /\ req.cell = Some(<<5, 1, 0, 0, 0, 0, 0, 0>>) /\ result = Ok(261)


(* The "append address" enrichment. *)
\* C17: the enrichment of a call never fails and never faults: whatever the
\* string of the dest parameter of a module 4 / method 0 call (no hex, no
\* digits at all, 0xFF before bytes that are no key) and whatever the shard
\* count (0 too), it returns the extrinsic with both dest_address and
\* dest_shard_num added to the params, or the extrinsic as it was.
C17_AppendAddressNeverFaults ==
    (req.op = "extrinsic_append_address" /\ pc = "done") =>
        /\ IsOk(result)
        /\ \/ result.value = req.extrinsic
           \/ /\ DOMAIN result.value.call.params = {"dest", "dest_address", "dest_shard_num"}
              /\ result.value.call.params.dest = req.extrinsic.call.params.dest
              /\ [result.value EXCEPT !.call.params = req.extrinsic.call.params] = req.extrinsic


(* Header by number. *)
\* C19: get_header_by_number returns a header only when the hash resolution
\* and the header fetch both returned a value, and the header is the one of
\* the block of the number asked for, with the hash resolved for it.  When
\* the shard has no block at the number, the result is never a header (the
\* best header, fetched with no hash, is dropped): it is Ok(None), and the
\* only error it can be is a transport failure of the header fetch.
C19_HeaderByNumber ==
    (req.op = "get_header_by_number" /\ pc = "done") =>
        /\ (IsOk(result) /\ IsSome(result.value)) =>
              /\ answers = <<"some", "some">>
              /\ calls = <<GetBlockHash(req.shard_num, req.number),
                           GetHeader(req.shard_num, Some(HashAt(req.number)))>>
              /\ Unwrap(result.value) =
                    [number |-> req.number, block_hash |-> Some(HashAt(req.number))]
        /\ (Len(answers) >= 1 /\ answers[1] = "none") =>
              /\ Len(answers) = 2
              /\ answers[2] # "err" => result = Ok(None)
              /\ answers[2] = "err" => result = Err(TransportError)

C19_Witness ==
    /\ req.op = "get_header_by_number" /\ pc = "done"
    /\ answers = <<"none", "some">>
    /\ calls[2] = GetHeader(req.shard_num, None)
    /\ result = Ok(None)


(* Finalized number. *)
\* C20: get_finalized_number resolves the finalized hash of the shard and
\* fetches the header at that hash: a number it returns is the number of the
\* header at the finalized hash, and when the shard reports no finalized
\* hash it returns the number of no block.
C20_FinalizedNumberOfFinalizedHash ==
    (/\ req.op = "get_finalized_number" /\ req.shard_num < shard_count
     /\ pc = "done" /\ IsOk(result) /\ IsSome(result.value)) =>
        /\ answers = <<"some", "some">>
        /\ Len(calls) = 2
        /\ calls[1] = GetFinalizedHash(req.shard_num)
        /\ calls[2].method = "get_header" /\ IsSome(calls[2].hash)
        /\ Unwrap(result.value) = NumberAt(Unwrap(calls[2].hash))


(* Two requests in flight. *)
\* The remote calls a request may issue: those of its operation, to its shard.
MethodsOf(op) ==
    CASE op = "get_best_number" -> {"get_header"}
      [] op = "get_finalized_number" -> {"get_finalized_hash", "get_header"}
      [] op = "get_header_by_number" -> {"get_block_hash", "get_header"}
      [] op = "get_header_by_hash" -> {"get_header"}
      [] op = "get_block_by_hash" -> {"get_block", "get_storage"}
      [] op \in {"get_nonce", "get_balance"} -> {"get_block_hash", "get_storage"}
      [] op = "submit_extrinsic" -> {"submit_extrinsic"}
      [] OTHER -> {"get_block_hash", "get_block", "get_storage"}

OwnCalls(future) ==
    /\ future.pending \subseteq {future.calls[i] : i \in DOMAIN future.calls}
    /\ Len(future.answers) <= Len(future.calls)
    /\ \A i \in DOMAIN future.calls :
          /\ future.calls[i].method \in MethodsOf(future.req.op)
          /\ "shard_num" \in DOMAIN future.req => future.calls[i].shard = future.req.shard_num
          /\ future.calls[i].method = "submit_extrinsic" => future.calls[i].raw = future.req.raw

\* f and g are the future of one request, holding the same.
SameFuture(f, g) == f.req.op = g.req.op /\ f = g

FlagAt(events, N) ==
    IF AppliedAt(events, N) = {} THEN None ELSE Some(FlagOf(events, N))

\* The block `made` is the block `before` with the flags of `events`: the
\* same header, the same transactions in the same order, each with the flag
\* of its index (its position counted from 0).
Correlated(made, before, events) ==
    /\ made.header = before.header
    /\ DOMAIN made.extrinsics = DOMAIN before.extrinsics
    /\ \A i \in DOMAIN made.extrinsics :
          /\ made.extrinsics[i].hash = before.extrinsics[i].hash
          /\ made.extrinsics[i].call = before.extrinsics[i].call
          /\ made.extrinsics[i].block_number = before.extrinsics[i].block_number
          /\ made.extrinsics[i].success = FlagAt(events, i - 1)

\* C21: after the block pipeline the transaction at position i has the flag
\* the decoded event log has for extrinsic index i, and no flag when the log
\* has no entry for i (or the cell of the log is absent); the transactions of
\* the block are neither reordered, added nor removed, in the block made and
\* in the value a block request returns.
C21_FlagsByPosition ==
    /\ []((pc = "events" /\ req.op \in BlockOps) =>
            /\ \A log \in EventLogs :
                  log.decodes =>
                     Correlated(with_extrinsics_result(
                                    Unwrap(block),
                                    get_block_extrinsics_result(Some(log)).value,
                                    with_raw(req.op)),
                                Unwrap(block), log.events)
            /\ Correlated(with_extrinsics_result(
                              Unwrap(block), get_block_extrinsics_result(None).value,
                              with_raw(req.op)),
                          Unwrap(block), <<>>))
    /\ [][(/\ req.op \in {"get_block_by_number", "get_block_by_hash"}
           /\ pc = "events" /\ pc' = "done"
           /\ IsOk(result') /\ IsSome(result'.value)) =>
             LET returned == Unwrap(result'.value).extrinsics
                 before == Unwrap(block).extrinsics
             IN /\ DOMAIN returned = DOMAIN before
                /\ \A i \in DOMAIN returned :
                      /\ returned[i].hash = before[i].hash
                      /\ returned[i].success \in {None, Some(TRUE), Some(FALSE)}
                      /\ (answers'[Len(answers')] = "none") => returned[i].success = None]_vars

C21_Witness ==
    /\ req.op = "get_block_by_number" /\ ReturnedValue
    /\ Len(Unwrap(result.value).extrinsics) = 2
    /\ Unwrap(result.value).extrinsics[1].success = None
    /\ Unwrap(result.value).extrinsics[2].success = Some(TRUE)


(* What the "append address" enrichment adds, and to what. *)
\* The call of the extrinsic is module 4 / method 0 and its dest is hex of
\* bytes that begin with 0xFF.
Qualifies(extrinsic) ==
    /\ extrinsic.call.module = 4 /\ extrinsic.call.method = 0
    /\ extrinsic.call.params.dest.valid
    /\ Len(extrinsic.call.params.dest.bytes) >= 1
    /\ extrinsic.call.params.dest.bytes[1] = 255

\* `made` is `extrinsic` enriched: with the address and the shard of the key
\* after 0xFF in the params when the extrinsic qualifies, and as it was when
\* it does not.
EnrichedFrom(made, extrinsic) ==
    IF Qualifies(extrinsic)
    THEN LET dest == extrinsic.call.params.dest.bytes
             public == SubSeq(dest, 2, Len(dest))
         IN /\ DOMAIN made = DOMAIN extrinsic
            /\ \A f \in DOMAIN made \ {"call"} : made[f] = extrinsic[f]
            /\ made.call.module = 4 /\ made.call.method = 0
            /\ DOMAIN made.call.params = {"dest", "dest_address", "dest_shard_num"}
            /\ made.call.params.dest = extrinsic.call.params.dest
            /\ Some(made.call.params.dest_address) = to_address(public)
            /\ Some(made.call.params.dest_shard_num) = shard_num_for_bytes(public, shard_count)
    ELSE /\ DOMAIN made.call.params = DOMAIN extrinsic.call.params
         /\ made = extrinsic

\* C22: where the enrichment returns, it has added dest_address and
\* dest_shard_num to the params of a call only if the call is module 4 /
\* method 0 and its dest hex-decodes to bytes that begin with 0xFF, and has
\* left every other extrinsic as it was; of the Value of a block it has
\* enriched every element of extrinsics, and of the Value of one extrinsic
\* the value itself; no value and an error pass as they are.
C22_AppendAddressFrame ==
    (pc = "done" /\ result.state # "panic") =>
        /\ req.op = "extrinsic_append_address" =>
              IsOk(result) /\ EnrichedFrom(result.value, req.extrinsic)
        /\ req.op = "get_value_with_address_future" =>
              IF IsOk(req.future) /\ IsSome(req.future.value)
              THEN LET given == Unwrap(req.future.value) IN
                   /\ IsOk(result) /\ IsSome(result.value)
                   /\ DOMAIN Unwrap(result.value) = DOMAIN given
                   /\ IF "extrinsics" \in DOMAIN given
                      THEN LET made == Unwrap(result.value) IN
                           /\ made.header = given.header
                           /\ DOMAIN made.extrinsics = DOMAIN given.extrinsics
                           /\ \A i \in DOMAIN made.extrinsics :
                                 EnrichedFrom(made.extrinsics[i], given.extrinsics[i])
                      ELSE EnrichedFrom(Unwrap(result.value), given)
              ELSE result = req.future

C22_Witness ==
    /\ req.op = "get_value_with_address_future" /\ pc = "done" /\ IsOk(result)
    /\ IsOk(req.future) /\ IsSome(req.future.value)
    /\ "extrinsics" \in DOMAIN Unwrap(req.future.value)
    /\ Len(Unwrap(req.future.value).extrinsics) = 2
    /\ Qualifies(Unwrap(req.future.value).extrinsics[1])
    /\ ~Qualifies(Unwrap(req.future.value).extrinsics[2])
    /\ "dest_address" \in DOMAIN Unwrap(result.value).extrinsics[1].call.params
    /\ Unwrap(result.value).extrinsics[2] = Unwrap(req.future.value).extrinsics[2]


(* The block of a read of account state. *)
IsStorageRead(c) == c.method = "get_storage"

\* C23: when get_nonce or get_balance is given a block number, the storage
\* read follows the resolution of that number to a hash and is issued at the
\* hash of that block; a storage read with no block hash (the latest state)
\* is issued only when the caller gave no block number.
C23_StorageReadAtRequestedBlock ==
    IsAccountOp =>
        \A i \in DOMAIN calls :
           IsStorageRead(calls[i]) =>
              IF IsSome(req.block_number)
              THEN /\ i = 2
                   /\ calls[1] = GetBlockHash(calls[i].shard, Unwrap(req.block_number))
                   /\ Len(answers) >= 1 /\ answers[1] = "some"
                   /\ calls[i].hash = Some(HashAt(Unwrap(req.block_number)))
              ELSE i = 1 /\ calls[i].hash = None


(* A probe of the range scan that finds no block: the answer Ok(None) to the
   get_block_hash call of the probe, or to its get_block call. *)
AbsentAnswered ==
    /\ IsScan /\ pc \in {"block_hash", "block"}
    /\ Len(answers') = Len(answers) + 1
    /\ answers'[Len(answers')] = "none"

\* C24: in the range scan a block number at which the shard has no block is
\* treated as a block without a match: the probe is over without an error,
\* the scan goes on to the next block number while the number is below
\* to_block, and ends "not found" at to_block or above; a scan that meets no
\* block at all probes every block number from from_block to to_block.
C24_AbsentBlockIsNoMatch ==
    /\ [][AbsentAnswered =>
            /\ scan' = Append(scan, [number |-> block_number, matches |-> EmptyMap])
            /\ IF block_number < req.to_block_number
               THEN /\ pc' = "block_hash"
                    /\ block_number' = block_number + 1
                    /\ calls' = Append(calls, GetBlockHash(req.shard_num, block_number + 1))
                    /\ result' = result
                    /\ loop_result' = loop_result
               ELSE /\ pc' = "done"
                    /\ calls' = calls
                    /\ loop_result' = Ok(None)
                    /\ result' = Ok(None)]_vars
    /\ []((/\ IsScan /\ pc = "done" /\ Len(answers) >= 1
           /\ \A i \in DOMAIN answers : answers[i] = "none") =>
             /\ Len(Probed) = Max(1, req.to_block_number - req.from_block_number + 1)
             /\ \A i \in DOMAIN Probed : Probed[i] = req.from_block_number + i - 1
             /\ Len(scan) = Len(Probed)
             /\ \A i \in DOMAIN scan : ~Matched(i)
             /\ result = Ok(None))

C24_Witness ==
    /\ IsScan /\ pc = "done"
    /\ req.from_block_number = 0 /\ req.to_block_number = MaxBlock
    /\ Len(answers) = MaxBlock + 1
    /\ \A i \in DOMAIN answers : answers[i] = "none"
    /\ Probed = [i \in 1..(MaxBlock + 1) |-> i - 1]
    /\ result = Ok(None)

\* C25: the increment of the block number in the range-scan loop does not
\* overflow: the loop goes on only from a probe without a match at a block
\* number below to_block, so that for every block number and every to_block
\* of the type, the greatest included, the next number is block_number + 1
\* and is a number of the type.
C25_IncrementRepresentable ==
    (req.op = "loop_step" /\ pc = "done" /\ result.value.kind = "Continue") =>
        /\ req.found = Ok(None)
        /\ req.block_number < req.to_block_number
        /\ result.value.state = req.block_number + 1
        /\ result.value.state \in 0..MaxBlockNumber
        /\ result.value.state = (req.block_number + 1) % (2 ^ BlockNumberBits)

C25_Witness ==
    /\ req.op = "loop_step" /\ pc = "done"
    /\ req.to_block_number = MaxBlockNumber
    /\ req.block_number = MaxBlockNumber - 1
    /\ result = Ok([kind |-> "Continue", state |-> MaxBlockNumber])
=============================================================================
